---------------------------- MODULE Spec2Model ----------------------------
(***************************************************************************)
(* A model of the isolation runtime of isidentical/isolate:                *)
(*   - the log pipe            (isolate/backends/common.py, logged_io)     *)
(*   - environment creation    (isolate/backends/conda.py, create)         *)
(*   - the remote facade       (isolate/backends/remote.py, run)           *)
(*   - the serialization layer (isolate/connections/common.py)             *)
(*   - search-path composition (isolate/backends/common.py,                *)
(*                              python_path_for)                           *)
(*   - the service address     (isolate/connections/ipc/bridge.py)         *)
(*   - the key of an environment (isolate/backends/remote.py, conda.py)    *)
(*   - loading a serialized object (isolate/connections/common.py,         *)
(*                              load_serialized_object)                    *)
(* Each component has its own next-state relation and specification; the   *)
(* components share no state, so each specification leaves the variables   *)
(* of the other components unchanged.                                      *)
(***************************************************************************)
EXTENDS Integers, Sequences, FiniteSets, TLC

VARIABLES
    \* ---- log pipe -------------------------------------------------------
    termination_event,  \* threading.Event of logged_io
    written,            \* per stream: every line the child wrote or began (history)
    unwritten,          \* per stream: the rest of the line the child is writing
    pipe,               \* per stream: characters written and not yet read
    open_fds,           \* the descriptors of the two pipes that are open
    rpc,                \* per stream: where the reader thread is
    rbuf,               \* per stream: result of readlines() not yet iterated
    passed,             \* per stream: the lines passed to the hook, in order
    ctl,                \* where the thread that entered logged_io is
    body_raised,        \* the body of the context raised
    join_expired,       \* per stream: join() came back with the thread alive
    \* ---- environment creation -------------------------------------------
    conda_available,    \* _get_conda_executable finds a binary
    packages,           \* CondaEnvironment.packages
    disk,               \* the cache slot of the key on disk
    slot_files,         \* the files of interest present in the slot
    provisioning,       \* callers whose conda subprocess is running
    intact,             \* per caller: nobody touched the slot since its conda started
    cpc,                \* per caller: where the caller is in create/destroy
    exist_ok,           \* per caller: the exist_ok argument of the call
    invoked,            \* per caller: the call started the provisioner
    cerr,               \* per caller: the exception the call raised
    handed_out,         \* a create returned the path and no destroy removed it since
    \* ---- remote facade --------------------------------------------------
    channel,            \* IsolateServerConnection._channel
    channels_opened,    \* how many channels grpc.insecure_channel has made
    open_channels,      \* the channels made and not closed
    previous_raised,    \* the run before the current one raised
    stream,             \* the frames the server has sent for the current run
    stream_closed,      \* the server has ended the response stream
    pos,                \* number of frames of the stream already received
    sink,               \* what self.log was called with, in order
    return_value,       \* the list return_value of run
    routcome,           \* how run ended
    \* ---- serialization / bridge -----------------------------------------
    bpc,                \* where the bridge call is
    breq,               \* the arguments of the bridge call
    serialized,         \* what serialize_object gave for the call
    spawned,            \* a child was spawned for the call
    child_result,       \* the result frame the child sent
    boutcome,           \* how the bridge call ended
    \* ---- search path ----------------------------------------------------
    ppc,                \* where the connection is
    primary,            \* environment_path of the connection
    inheritance,        \* extra_inheritance_paths of the connection
    pythonpath,         \* the PYTHONPATH string, as a sequence of tokens
    resolved,           \* per module: the environment it was imported from
    \* ---- service address codec -----------------------------------------
    service_address,    \* the address given to encode_service_address
    encoded_address,    \* how encode_service_address ended
    decoded_address,    \* how decode_service_address ended
    \* ---- key of an environment -----------------------------------------
    ambient,            \* the working directory of the process
    key_calls,          \* the two key computations compared
    \* ---- loading a serialized object -----------------------------------
    lpc,                \* where the call of load_serialized_object is
    load_request,       \* the arguments of the call
    load_outcome        \* how the call ended

varsLog == <<termination_event, written, unwritten, pipe, open_fds, rpc, rbuf,
             passed, ctl, body_raised, join_expired>>
varsCreate == <<conda_available, packages, disk, slot_files, provisioning,
                intact, cpc, exist_ok, invoked, cerr, handed_out>>
varsRemote == <<channel, channels_opened, open_channels, previous_raised,
                stream, stream_closed, pos, sink, return_value, routcome>>
varsBridge == <<bpc, breq, serialized, spawned, child_result, boutcome>>
varsPath == <<ppc, primary, inheritance, pythonpath, resolved>>
varsAddress == <<service_address, encoded_address, decoded_address>>
varsKey == <<ambient, key_calls>>
varsLoad == <<lpc, load_request, load_outcome>>
vars == <<varsLog, varsCreate, varsRemote, varsBridge, varsPath, varsAddress,
          varsKey, varsLoad>>

\* The variables of the other components, which a component leaves alone.
OutsideOfLog == <<varsCreate, varsRemote, varsBridge, varsPath, varsAddress, varsKey, varsLoad>>
OutsideOfCreate == <<varsLog, varsRemote, varsBridge, varsPath, varsAddress, varsKey, varsLoad>>
OutsideOfRemote == <<varsLog, varsCreate, varsBridge, varsPath, varsAddress, varsKey, varsLoad>>
OutsideOfBridge == <<varsLog, varsCreate, varsRemote, varsPath, varsAddress, varsKey, varsLoad>>
OutsideOfAddress == <<varsLog, varsCreate, varsRemote, varsBridge, varsPath, varsKey, varsLoad>>
OutsideOfKey ==
    <<varsLog, varsCreate, varsRemote, varsBridge, varsPath, varsAddress, varsLoad>>
OutsideOfLoad ==
    <<varsLog, varsCreate, varsRemote, varsBridge, varsPath, varsAddress,
      varsKey>>
OutsideOfPath == <<varsLog, varsCreate, varsRemote, varsBridge, varsAddress, varsKey, varsLoad>>

Last(s) == s[Len(s)]
Front(s) == SubSeq(s, 1, Len(s) - 1)

(***************************************************************************)
(*                              THE LOG PIPE                               *)
(***************************************************************************)

\* Most lines the child writes to one stream.
MaxLines == 2

Streams == {"stdout", "stderr"}

Whitespace == {" ", "\n"}

\* str.rstrip(): drop the trailing whitespace, the newline included.
RECURSIVE RStrip(_)
RStrip(line) ==
    IF line = <<>> THEN <<>>
    ELSE IF Last(line) \in Whitespace THEN RStrip(Front(line))
    ELSE line

RECURSIVE StripAll(_)
StripAll(lines) ==
    IF lines = <<>> THEN <<>>
    ELSE <<RStrip(Head(lines))>> \o StripAll(Tail(lines))

\* The k-th line of a stream: its number, optional trailing blanks, a newline.
LineOf(k, trailing) == <<ToString(k)>> \o trailing \o <<"\n">>

Trailings == {<<>>, <<" ">>}

\* The descriptors of the two pipes of logged_io.
ReadEnd(s) == <<s, "reader_fd">>
WriteEnd(s) == <<s, "writer_fd">>
PipeFds == {ReadEnd(s) : s \in Streams} \cup {WriteEnd(s) : s \in Streams}

LogInit ==
    /\ termination_event = FALSE
    /\ written = [s \in Streams |-> <<>>]
    /\ unwritten = [s \in Streams |-> <<>>]
    /\ pipe = [s \in Streams |-> <<>>]
    /\ open_fds = PipeFds
    /\ rpc = [s \in Streams |-> "wait"]
    /\ rbuf = [s \in Streams |-> <<>>]
    /\ passed = [s \in Streams |-> <<>>]
    /\ ctl = "body"
    /\ body_raised = FALSE
    /\ join_expired = [s \in Streams |-> FALSE]

\* The child (holding the write ends) starts a line while the body runs: a
\* write() puts the first n characters of the line in the pipe, the whole
\* line when n is its length.
ChildWrite(s, trailing, n) ==
    /\ ctl = "body"
    /\ unwritten[s] = <<>>
    /\ Len(written[s]) < MaxLines
    /\ LET line == LineOf(Len(written[s]) + 1, trailing) IN
        /\ n \in 1..Len(line)
        /\ written' = [written EXCEPT ![s] = Append(@, line)]
        /\ pipe' = [pipe EXCEPT ![s] = @ \o SubSeq(line, 1, n)]
        /\ unwritten' = [unwritten EXCEPT ![s] = SubSeq(line, n + 1, Len(line))]
    /\ UNCHANGED <<termination_event, open_fds, rpc, rbuf, passed, ctl,
                   body_raised, join_expired>>
    /\ UNCHANGED OutsideOfLog

\* The child writes the rest of the line it started.
ChildWriteRest(s) ==
    /\ ctl = "body"
    /\ unwritten[s] # <<>>
    /\ pipe' = [pipe EXCEPT ![s] = @ \o unwritten[s]]
    /\ unwritten' = [unwritten EXCEPT ![s] = <<>>]
    /\ UNCHANGED <<termination_event, written, open_fds, rpc, rbuf, passed,
                   ctl, body_raised, join_expired>>
    /\ UNCHANGED OutsideOfLog

\* The length of what readline() returns on a non-blocking pipe holding
\* 'data': up to and including the first newline, or all there is when no
\* newline has arrived yet (nothing when the pipe is empty).
RECURSIVE ReadlineLen(_)
ReadlineLen(data) ==
    IF data = <<>> THEN 0
    ELSE IF Head(data) = "\n" THEN 1
    ELSE 1 + ReadlineLen(Tail(data))

readline(data) == SubSeq(data, 1, ReadlineLen(data))

\* readlines(): everything there is, cut after each newline.
RECURSIVE readlines(_)
readlines(data) ==
    IF data = <<>> THEN <<>>
    ELSE <<readline(data)>>
         \o readlines(SubSeq(data, ReadlineLen(data) + 1, Len(data)))

\* hook(line.rstrip()): the line is handed to the hook.
CallHook(s, line) == [passed EXCEPT ![s] = Append(@, RStrip(line))]

\* One turn of the polling loop: termination_event.wait(delay) timed out
\* (the event is not set), then one readline(); an empty read continues.
ReaderPoll(s) ==
    /\ rpc[s] = "wait"
    /\ ~termination_event
    /\ LET line == readline(pipe[s]) IN
       IF line = <<>>
       THEN UNCHANGED <<pipe, passed, rpc>>
       ELSE /\ pipe' = [pipe EXCEPT ![s] = SubSeq(@, Len(line) + 1, Len(@))]
            /\ passed' = CallHook(s, line)
            /\ rpc' = [rpc EXCEPT ![s] = "hook_poll"]
    /\ UNCHANGED <<termination_event, written, unwritten, open_fds, rbuf, ctl,
                   body_raised, join_expired>>
    /\ UNCHANGED OutsideOfLog

\* termination_event.wait() returns True: leave the loop, readlines().
ReaderReadlines(s) ==
    /\ rpc[s] = "wait"
    /\ termination_event
    /\ rbuf' = [rbuf EXCEPT ![s] = readlines(pipe[s])]
    /\ pipe' = [pipe EXCEPT ![s] = <<>>]
    /\ rpc' = [rpc EXCEPT ![s] = "drain"]
    /\ UNCHANGED <<termination_event, written, unwritten, open_fds, passed,
                   ctl, body_raised, join_expired>>
    /\ UNCHANGED OutsideOfLog

\* One iteration of 'for line in stream.readlines()'; the thread ends (and
\* the 'with open(reading_fd)' closes the read end) when none is left.
ReaderDrain(s) ==
    /\ rpc[s] = "drain"
    /\ IF rbuf[s] = <<>>
       THEN /\ rpc' = [rpc EXCEPT ![s] = "done"]
            /\ open_fds' = open_fds \ {ReadEnd(s)}
            /\ UNCHANGED <<rbuf, passed>>
       ELSE /\ rbuf' = [rbuf EXCEPT ![s] = Tail(@)]
            /\ passed' = CallHook(s, Head(rbuf[s]))
            /\ rpc' = [rpc EXCEPT ![s] = "hook_drain"]
            /\ UNCHANGED open_fds
    /\ UNCHANGED <<termination_event, written, unwritten, pipe, ctl,
                   body_raised, join_expired>>
    /\ UNCHANGED OutsideOfLog

\* The hook returns to the reader, after however long it takes.
HookReturn(s) ==
    /\ rpc[s] \in {"hook_poll", "hook_drain"}
    /\ rpc' = [rpc EXCEPT ![s] = IF rpc[s] = "hook_poll" THEN "wait" ELSE "drain"]
    /\ UNCHANGED <<termination_event, written, unwritten, pipe, open_fds, rbuf,
                   passed, ctl, body_raised, join_expired>>
    /\ UNCHANGED OutsideOfLog

\* The body of the context ends (normally or by raising); the finally
\* clause sets the termination event. It closes no descriptor.
BodyExit(raised) ==
    /\ ctl = "body"
    /\ body_raised' = raised
    /\ termination_event' = TRUE
    /\ ctl' = "join_stdout"
    /\ UNCHANGED <<written, unwritten, pipe, open_fds, rpc, rbuf, passed,
                   join_expired>>
    /\ UNCHANGED OutsideOfLog

JoinedStream == [join_stdout |-> "stdout", join_stderr |-> "stderr"]
AfterJoin == [join_stdout |-> "join_stderr", join_stderr |-> "exited"]

\* Thread.join(timeout) raises nothing: it comes back when the thread has
\* ended ...
JoinReturn ==
    /\ ctl \in DOMAIN JoinedStream
    /\ rpc[JoinedStream[ctl]] = "done"
    /\ ctl' = AfterJoin[ctl]
    /\ UNCHANGED <<termination_event, written, unwritten, pipe, open_fds, rpc,
                   rbuf, passed, body_raised, join_expired>>
    /\ UNCHANGED OutsideOfLog

\* The reader is inside a hook, the one step of a reader whose duration the
\* code does not bound.
ReaderHeld(s) == rpc[s] \in {"hook_poll", "hook_drain"}

\* Thread.join(timeout) returns None when the timeout elapses: it does not
\* raise TimeoutError, so the except clause of logged_io is not entered.
JoinRaisesTimeoutError == FALSE

\* ... or when the timeout has elapsed, with the thread still alive, and
\* then too the code goes on to the next statement.
JoinExpire ==
    /\ ctl \in DOMAIN JoinedStream
    /\ ReaderHeld(JoinedStream[ctl])
    /\ join_expired' = [join_expired EXCEPT ![JoinedStream[ctl]] = TRUE]
    /\ ctl' = IF JoinRaisesTimeoutError THEN "RuntimeError" ELSE AfterJoin[ctl]
    /\ UNCHANGED <<termination_event, written, unwritten, pipe, open_fds, rpc,
                   rbuf, passed, body_raised>>
    /\ UNCHANGED OutsideOfLog

NextLog ==
    \/ \E s \in Streams, t \in Trailings :
          \E n \in 1..Len(LineOf(1, t)) : ChildWrite(s, t, n)
    \/ \E s \in Streams : ChildWriteRest(s)
    \/ \E s \in Streams : ReaderPoll(s)
    \/ \E s \in Streams : ReaderReadlines(s)
    \/ \E s \in Streams : ReaderDrain(s)
    \/ \E s \in Streams : HookReturn(s)
    \/ \E r \in BOOLEAN : BodyExit(r)
    \/ JoinReturn
    \/ JoinExpire

(***************************************************************************)
(*                     ENVIRONMENT CREATION (conda)                        *)
(***************************************************************************)

\* Concurrent callers of create/destroy on one environment key (threads or
\* processes sharing the cache directory).
NCallers == 2

Callers == 1..NCallers

\* The cache slot <cache_dir>/<key>: not there, a directory conda has not
\* finished (or that was interfered with), or a finished environment.
SlotStates == {"absent", "partial", "complete"}

\* path.exists()
PathExists == disk # "absent"

\* The package lists of the environments created: none, or the interpreter.
PackageLists == {<<>>, <<"python">>}

\* The interpreter of an environment, which get_executable_path looks up
\* under <path>/bin, and the marker file of a finished slot.
PythonBin == "bin/python"
ReadyMarker == ".ready"

\* What a finished 'conda create --prefix path *packages' has put in the
\* prefix: an interpreter when the packages ask for one. Nothing in create
\* writes a marker file.
Provisioned(pkgs) ==
    IF \E i \in 1..Len(pkgs) : pkgs[i] = "python" THEN {PythonBin} ELSE {}

CreateInit ==
    /\ conda_available \in BOOLEAN
    /\ packages \in PackageLists
    /\ disk = "absent"
    /\ slot_files = {}
    /\ provisioning = {}
    /\ intact = [c \in Callers |-> FALSE]
    /\ cpc = [c \in Callers |-> "idle"]
    /\ exist_ok = [c \in Callers |-> FALSE]
    /\ invoked = [c \in Callers |-> FALSE]
    /\ cerr = [c \in Callers |-> "none"]
    /\ handed_out = FALSE

Finished(c) ==
    cpc[c] \in {"idle", "returned", "failed", "destroyed", "destroy_failed"}

\* create(exist_ok=ok) is called.
CallCreate(c, ok) ==
    /\ Finished(c)
    /\ cpc' = [cpc EXCEPT ![c] = "check"]
    /\ exist_ok' = [exist_ok EXCEPT ![c] = ok]
    /\ invoked' = [invoked EXCEPT ![c] = FALSE]
    /\ cerr' = [cerr EXCEPT ![c] = "none"]
    /\ UNCHANGED <<conda_available, packages, disk, slot_files, provisioning,
                   intact, handed_out>>
    /\ UNCHANGED OutsideOfCreate

\* A create that returns the existing path whatever exist_ok says.
WhenExistsIgnoringFlag(ok) == "returned"

\* What create does when path.exists(): return the path or raise.
WhenExists(ok) == IF ok THEN "returned" ELSE "failed"

\* 'if path.exists(): ...', else go on into 'with rmdir_on_fail(path)'.
CheckExists(c) ==
    /\ cpc[c] = "check"
    /\ IF PathExists
       THEN /\ cpc' = [cpc EXCEPT ![c] = WhenExists(exist_ok[c])]
            /\ cerr' = [cerr EXCEPT ![c] =
                            IF WhenExists(exist_ok[c]) = "failed"
                            THEN "FileExistsError" ELSE "none"]
       ELSE /\ cpc' = [cpc EXCEPT ![c] = "enter"]
            /\ UNCHANGED cerr
    /\ handed_out' = (handed_out \/ cpc'[c] = "returned")
    /\ UNCHANGED <<conda_available, packages, disk, slot_files, provisioning,
                   intact, exist_ok, invoked>>
    /\ UNCHANGED OutsideOfCreate

\* The exceptions 'except Exception' of rmdir_on_fail catches: the
\* subclasses of Exception, which KeyboardInterrupt (a BaseException) is not.
IsException(e) == e \in {"FileNotFoundError", "CalledProcessError"}

\* rmdir_on_fail's handler: the slot after exception e left the context.
AfterFailure(e) == IF IsException(e) /\ PathExists THEN "absent" ELSE disk

\* The files of a slot whose state becomes d: a removed slot has none.
FilesAfter(d) == IF d = "absent" THEN {} ELSE slot_files

\* Whoever removes or rewrites the slot spoils the runs in progress on it.
Spoil(c) == [d \in Callers |-> IF d = c THEN intact[d] ELSE FALSE]

\* _get_conda_executable() finds nothing: FileNotFoundError leaves the
\* context through rmdir_on_fail.
CondaNotFound(c) ==
    /\ cpc[c] = "enter"
    /\ ~conda_available
    /\ disk' = AfterFailure("FileNotFoundError")
    /\ slot_files' = FilesAfter(disk')
    /\ intact' = IF disk' # disk THEN [Spoil(c) EXCEPT ![c] = FALSE] ELSE intact
    /\ cpc' = [cpc EXCEPT ![c] = "failed"]
    /\ cerr' = [cerr EXCEPT ![c] = "FileNotFoundError"]
    /\ UNCHANGED <<conda_available, packages, provisioning, exist_ok, invoked,
                   handed_out>>
    /\ UNCHANGED OutsideOfCreate

\* subprocess.check_call starts 'conda create --yes --prefix path ...',
\* which (re)creates the prefix directory.
CondaStart(c) ==
    /\ cpc[c] = "enter"
    /\ conda_available
    /\ disk' = "partial"
    /\ slot_files' = {}
    /\ provisioning' = provisioning \cup {c}
    /\ intact' = [Spoil(c) EXCEPT ![c] = TRUE]
    /\ invoked' = [invoked EXCEPT ![c] = TRUE]
    /\ cpc' = [cpc EXCEPT ![c] = "conda"]
    /\ UNCHANGED <<conda_available, packages, exist_ok, cerr, handed_out>>
    /\ UNCHANGED OutsideOfCreate

\* The subprocess exits with status zero: create returns the path. A run
\* that another caller interfered with leaves whatever it leaves.
CondaSucceed(c, left) ==
    /\ cpc[c] = "conda"
    /\ left \in (IF intact[c] THEN {"complete"} ELSE {"partial", "complete"})
    /\ disk' = left
    /\ slot_files' = IF left = "complete" THEN Provisioned(packages) ELSE {}
    /\ provisioning' = provisioning \ {c}
    /\ intact' = [intact EXCEPT ![c] = FALSE]
    /\ cpc' = [cpc EXCEPT ![c] = "returned"]
    /\ handed_out' = TRUE
    /\ UNCHANGED <<conda_available, packages, exist_ok, invoked, cerr>>
    /\ UNCHANGED OutsideOfCreate

\* What can end the subprocess call other than status zero: a non-zero
\* status (CalledProcessError) or an interruption of the waiting caller
\* (KeyboardInterrupt; check_call kills the subprocess and re-raises).
ProvisionFailures == {"CalledProcessError", "KeyboardInterrupt"}

\* The subprocess call raises e, which leaves through rmdir_on_fail.
CondaFail(c, e) ==
    /\ cpc[c] = "conda"
    /\ disk' = AfterFailure(e)
    /\ slot_files' = FilesAfter(disk')
    /\ provisioning' = provisioning \ {c}
    /\ intact' = IF disk' # disk THEN [Spoil(c) EXCEPT ![c] = FALSE]
                 ELSE [intact EXCEPT ![c] = FALSE]
    /\ cpc' = [cpc EXCEPT ![c] = "failed"]
    /\ cerr' = [cerr EXCEPT ![c] = e]
    /\ UNCHANGED <<conda_available, packages, exist_ok, invoked, handed_out>>
    /\ UNCHANGED OutsideOfCreate

\* destroy(conn_info): shutil.rmtree(conn_info), which raises when the
\* directory is not there.
Destroy(c) ==
    /\ Finished(c)
    /\ IF PathExists
       THEN /\ disk' = "absent"
            /\ slot_files' = {}
            /\ intact' = Spoil(c)
            /\ cpc' = [cpc EXCEPT ![c] = "destroyed"]
            /\ handed_out' = FALSE
            /\ cerr' = [cerr EXCEPT ![c] = "none"]
       ELSE /\ cpc' = [cpc EXCEPT ![c] = "destroy_failed"]
            /\ cerr' = [cerr EXCEPT ![c] = "FileNotFoundError"]
            /\ UNCHANGED <<disk, slot_files, intact, handed_out>>
    /\ UNCHANGED <<conda_available, packages, provisioning, exist_ok, invoked>>
    /\ UNCHANGED OutsideOfCreate

NextCreate ==
    \/ \E c \in Callers, ok \in BOOLEAN : CallCreate(c, ok)
    \/ \E c \in Callers : CheckExists(c)
    \/ \E c \in Callers : CondaNotFound(c)
    \/ \E c \in Callers : CondaStart(c)
    \/ \E c \in Callers, left \in SlotStates : CondaSucceed(c, left)
    \/ \E c \in Callers, e \in ProvisionFailures : CondaFail(c, e)
    \/ \E c \in Callers : Destroy(c)

(***************************************************************************)
(*                THE REMOTE FACADE (IsolateServerConnection)              *)
(***************************************************************************)

\* Most frames (PartialResult messages) in one response stream.
MaxFrames == 3
\* Most log entries in one frame.
MaxLogs == 2

\* The serialized results a terminal frame may carry.
Payloads == {"r1", "r2"}

\* The raw log entries of frame number i that carries n of them.
RawLogs(i, n) ==
    [j \in 1..n |-> [message |-> <<i, j>>, level |-> "INFO", source |-> "USER"]]

\* A frame as the server sends it: how many logs, is_complete, result.
FrameShapes ==
    [nlogs : 0..MaxLogs, is_complete : {FALSE}, result : {"unset"}]
        \cup [nlogs : 0..MaxLogs, is_complete : {TRUE}, result : Payloads]

Frame(i, shape) ==
    [logs |-> RawLogs(i, shape.nlogs), is_complete |-> shape.is_complete,
     result |-> shape.result]

\* Most channels a connection opens.
MaxChannels == 2

\* _channel is None.
NoChannel == 0

RemoteInit ==
    /\ channel = NoChannel
    /\ channels_opened = 0
    /\ open_channels = {}
    /\ previous_raised = FALSE
    /\ stream = <<>>
    /\ stream_closed = FALSE
    /\ pos = 0
    /\ sink = <<>>
    /\ return_value = <<>>
    /\ routcome = [kind |-> "idle"]

\* run is called: the channel is acquired when none is held and the
\* request is sent.
\* A run that acquires a channel whether or not it holds one.
AlwaysAcquire(held) == TRUE

\* 'if self._channel is None': run acquires a channel.
NeedsChannel(held) == held = NoChannel

RunCall ==
    /\ routcome.kind # "running"
    /\ IF NeedsChannel(channel)
       THEN /\ channels_opened < MaxChannels
            /\ channels_opened' = channels_opened + 1
            /\ channel' = channels_opened'
            /\ open_channels' = open_channels \cup {channel'}
       ELSE UNCHANGED <<channel, channels_opened, open_channels>>
    /\ previous_raised' = (routcome.kind = "raise")
    /\ stream' = <<>>
    /\ stream_closed' = FALSE
    /\ pos' = 0
    /\ sink' = <<>>
    /\ return_value' = <<>>
    /\ routcome' = [kind |-> "running"]
    /\ UNCHANGED OutsideOfRemote

\* The server streams one more PartialResult message.
ServerSend(shape) ==
    /\ routcome.kind = "running"
    /\ ~stream_closed
    /\ Len(stream) < MaxFrames
    /\ stream' = Append(stream, Frame(Len(stream) + 1, shape))
    /\ UNCHANGED <<channel, channels_opened, open_channels, previous_raised,
                   stream_closed, pos, sink, return_value, routcome>>
    /\ UNCHANGED OutsideOfRemote

\* The server ends the response stream.
ServerClose ==
    /\ routcome.kind = "running"
    /\ ~stream_closed
    /\ stream_closed' = TRUE
    /\ UNCHANGED <<channel, channels_opened, open_channels, previous_raised,
                   stream, pos, sink, return_value, routcome>>
    /\ UNCHANGED OutsideOfRemote

\* interface.from_grpc on a log entry, then the arguments of self.log.
FromGrpcLog(raw) == <<raw.message, raw.level, raw.source>>

\* interface.from_grpc on a serialized result.
FromGrpcResult(payload) == <<"decoded", payload>>

\* A loop that forwards only the first log entry of a frame.
ForwardLogsFirstOnly(logs) ==
    IF logs = <<>> THEN <<>> ELSE <<FromGrpcLog(logs[1])>>

\* 'for raw_log in result.logs: self.log(...)'
ForwardLogs(logs) == [j \in 1..Len(logs) |-> FromGrpcLog(logs[j])]

\* 'if result.is_complete: return_value.append(...)'
Collect(acc, frame) ==
    IF frame.is_complete THEN Append(acc, FromGrpcResult(frame.result)) ELSE acc

\* One iteration of 'for result in stub.Run(request)'.
RunFrame ==
    /\ routcome.kind = "running"
    /\ pos < Len(stream)
    /\ LET frame == stream[pos + 1] IN
        /\ sink' = sink \o ForwardLogs(frame.logs)
        /\ return_value' = Collect(return_value, frame)
    /\ pos' = pos + 1
    /\ UNCHANGED <<channel, channels_opened, open_channels, previous_raised,
                   stream, stream_closed, routcome>>
    /\ UNCHANGED OutsideOfRemote

NoResultMessage ==
    "No result object was received from the server (it never set is_complete to True)."
MultipleResultsMessage ==
    "Multiple result objects were received from the server (it set is_complete to True multiple times)."

\* An ending of run that forgets the check for several results.
RunResultFirstWins(values) ==
    IF Len(values) = 0
    THEN [kind |-> "raise", type |-> "RuntimeError", message |-> NoResultMessage]
    ELSE [kind |-> "return", value |-> values[1]]

\* The if/elif/else on len(return_value) that ends run.
RunResult(values) ==
    IF Len(values) = 0
    THEN [kind |-> "raise", type |-> "RuntimeError", message |-> NoResultMessage]
    ELSE IF Len(values) > 1
    THEN [kind |-> "raise", type |-> "RuntimeError", message |-> MultipleResultsMessage]
    ELSE [kind |-> "return", value |-> values[1]]

\* The stream is exhausted: run returns or raises.
RunEnd ==
    /\ routcome.kind = "running"
    /\ stream_closed
    /\ pos = Len(stream)
    /\ routcome' = RunResult(return_value)
    /\ UNCHANGED <<channel, channels_opened, open_channels, previous_raised,
                   stream, stream_closed, pos, sink, return_value>>
    /\ UNCHANGED OutsideOfRemote

\* __exit__: _release_channel closes and clears the channel, if any.
ConnectionExit ==
    /\ routcome.kind # "running"
    /\ IF channel # NoChannel
       THEN /\ open_channels' = open_channels \ {channel}
            /\ channel' = NoChannel
       ELSE UNCHANGED <<channel, open_channels>>
    /\ UNCHANGED <<channels_opened, previous_raised, stream, stream_closed, pos,
                   sink, return_value, routcome>>
    /\ UNCHANGED OutsideOfRemote

NextRemote ==
    \/ RunCall
    \/ \E shape \in FrameShapes : ServerSend(shape)
    \/ ServerClose
    \/ RunFrame
    \/ RunEnd
    \/ ConnectionExit

(***************************************************************************)
(*              SERIALIZATION AND THE EXECUTION BRIDGE                     *)
(***************************************************************************)

Return(v) == [kind |-> "return", value |-> v]
Raise(e) == [kind |-> "raise", exc |-> e]
Exc(type, message) == [type |-> type, message |-> message]
IsExceptionObject(v) == DOMAIN v = {"type", "message"}

\* The names a serialization method may be given as, and what
\* importlib.import_module makes of each: two codecs, a module that is no
\* codec, and a name that cannot be imported.
Methods == {"pickle", "cloudpickle", "os", "no_such_module"}

import_module(name) ==
    CASE name = "pickle" ->
            Return([name |-> name, loads |-> TRUE, dumps |-> TRUE])
      [] name = "cloudpickle" ->
            Return([name |-> name, loads |-> TRUE, dumps |-> TRUE])
      [] name = "os" ->
            Return([name |-> name, loads |-> FALSE, dumps |-> FALSE])
      [] OTHER -> Raise(Exc("ModuleNotFoundError", name))

\* as_serialization_method: the backend itself when it has loads and dumps.
as_serialization_method(imported) ==
    IF imported.kind = "raise" THEN imported
    ELSE IF ~imported.value.loads \/ ~imported.value.dumps
    THEN Raise(Exc("TypeError", imported.value.name))
    ELSE imported

\* The callables of the tests: partial(operator.add, 1, 2),
\* partial(eval, "1 / 0") and the anonymous function lambda: 1 + 2.
Callables == {"add", "div0", "lambda"}
Callable(name) == [callable |-> name]

\* What may strike while a codec works: nothing, or an interruption.
Faults == {"none", "KeyboardInterrupt"}

\* backend.dumps(object): pickle cannot serialize an anonymous function.
dumps(backend, object, fault) ==
    IF fault # "none" THEN Raise(Exc(fault, "interrupted"))
    ELSE IF backend.name = "pickle" /\ object = Callable("lambda")
    THEN Raise(Exc("PicklingError", "Can't pickle <lambda>"))
    ELSE Return([bytes |-> object])

\* backend.loads(raw_object): what was serialized, when the bytes are sound.
loads(backend, raw, fault) ==
    IF fault # "none" THEN Raise(Exc(fault, "interrupted"))
    ELSE IF DOMAIN raw # {"bytes"}
    THEN Raise(Exc("UnpicklingError", "invalid load key"))
    ELSE Return(raw.bytes)

\* A _step whose handler is 'except Exception'.
StepCatchingExceptionOnly(message, outcome) ==
    IF outcome.kind = "raise" /\ outcome.exc.type # "KeyboardInterrupt"
    THEN Raise(Exc("SerializationError", "Error while " \o message))
    ELSE outcome

\* 'with _step(message): ...': whatever the block raises (BaseException)
\* becomes a SerializationError with the given message.
_step(message, outcome) ==
    IF outcome.kind = "raise"
    THEN Raise(Exc("SerializationError", "Error while " \o message))
    ELSE outcome

PreparingMessage(method) ==
    "preparing the serialization backend (" \o method \o ")"

\* The first _step of serialize_object and of load_serialized_object.
prepare(method) ==
    _step(PreparingMessage(method), as_serialization_method(import_module(method)))

serialize_object(method, object, fault) ==
    LET backend == prepare(method) IN
    IF backend.kind = "raise" THEN backend
    ELSE _step("serializing the given object", dumps(backend.value, object, fault))

\* A load_serialized_object that forgets was_it_raised.
LoadNeverRaising(method, raw, was_it_raised, fault) ==
    LET backend == prepare(method) IN
    IF backend.kind = "raise" THEN backend
    ELSE _step("deserializing the given object", loads(backend.value, raw, fault))

\* A 'raise result' that wraps what it raises in a SerializationError.
RaiseWrapped(v) ==
    Raise(Exc("SerializationError", "Error while raising the given object"))

\* 'raise result' raises the object when it is an exception, and a
\* TypeError when it is not.
RaiseObject(v) ==
    IF IsExceptionObject(v) THEN Raise(v)
    ELSE Raise(Exc("TypeError", "exceptions must derive from BaseException"))

load_serialized_object(method, raw, was_it_raised, fault) ==
    LET backend == prepare(method) IN
    IF backend.kind = "raise" THEN backend
    ELSE LET result == _step("deserializing the given object",
                            loads(backend.value, raw, fault)) IN
         IF result.kind = "raise" THEN result
         ELSE IF was_it_raised THEN RaiseObject(result.value)
         ELSE result

BridgeInit ==
    /\ bpc = "idle"
    /\ breq = [method |-> "pickle", callable |-> "add",
               ignore_exceptions |-> FALSE, fault |-> "none"]
    /\ serialized = [kind |-> "none"]
    /\ spawned = FALSE
    /\ child_result = [tag |-> "none"]
    /\ boutcome = [kind |-> "none"]

\* connection.run(executable, ignore_exceptions=...) is called on a
\* connection whose environment uses the given serialization method.
BridgeCall(method, callable, ignore, fault) ==
    /\ bpc \in {"idle", "done"}
    /\ bpc' = "serialize"
    /\ breq' = [method |-> method, callable |-> callable,
                ignore_exceptions |-> ignore, fault |-> fault]
    /\ serialized' = [kind |-> "none"]
    /\ spawned' = FALSE
    /\ child_result' = [tag |-> "none"]
    /\ boutcome' = [kind |-> "none"]
    /\ UNCHANGED OutsideOfBridge

\* Step 1 of a session: the callable is serialized; a failure ends the call.
BridgeSerialize ==
    /\ bpc = "serialize"
    /\ serialized' = serialize_object(breq.method, Callable(breq.callable), breq.fault)
    /\ IF serialized'.kind = "raise"
       THEN bpc' = "done" /\ boutcome' = serialized'
       ELSE bpc' = "spawn" /\ UNCHANGED boutcome
    /\ UNCHANGED <<breq, spawned, child_result>>
    /\ UNCHANGED OutsideOfBridge

\* Steps 2 and 3: the listener is opened and the child is spawned.
BridgeSpawn ==
    /\ bpc = "spawn"
    /\ spawned' = TRUE
    /\ bpc' = "child"
    /\ UNCHANGED <<breq, serialized, child_result, boutcome>>
    /\ UNCHANGED OutsideOfBridge

\* What the callable does when the agent calls it.
Execute(callable) ==
    IF callable = "div0"
    THEN Raise(Exc("ZeroDivisionError", "division by zero"))
    ELSE Return([int |-> 3])

\* The errors of the agent itself (not of the callable).
BridgeErrors == {Exc("SerializationError", "Error while deserializing the given object")}
NoFailure == Exc("none", "")

\* Step 4: the agent runs the request under a top-level catch and sends one
\* CallResult frame: the value, the exception of the callable, or an error
\* of its own.
ChildRun(failure) ==
    /\ bpc = "child"
    /\ failure \in BridgeErrors \cup {NoFailure}
    /\ LET ran == Execute(breq.callable)
           codec == prepare(breq.method).value
           sent == IF failure # NoFailure THEN failure
                   ELSE IF ran.kind = "raise" THEN ran.exc ELSE ran.value IN
        child_result' =
            [tag |-> IF failure # NoFailure \/ ran.kind = "raise" THEN "Err" ELSE "Ok",
             is_user_exception |-> failure = NoFailure /\ ran.kind = "raise",
             object |-> sent,
             payload |-> dumps(codec, sent, "none").value]
    /\ bpc' = "decode"
    /\ UNCHANGED <<breq, serialized, spawned, boutcome>>
    /\ UNCHANGED OutsideOfBridge

UserException(e) == [user_exception |-> e]

\* Step 7: the result frame is decoded; an exception of the callable is
\* returned wrapped when ignore_exceptions is set and raised otherwise, any
\* other error is raised.
DecodeResult(method, result, ignore) ==
    IF result.tag = "Err" /\ result.is_user_exception /\ ignore
    THEN LET decoded == load_serialized_object(method, result.payload, FALSE, "none") IN
         IF decoded.kind = "raise" THEN decoded
         ELSE Return(UserException(decoded.value))
    ELSE load_serialized_object(method, result.payload, result.tag = "Err", "none")

BridgeDecode ==
    /\ bpc = "decode"
    /\ boutcome' = DecodeResult(breq.method, child_result, breq.ignore_exceptions)
    /\ bpc' = "done"
    /\ UNCHANGED <<breq, serialized, spawned, child_result>>
    /\ UNCHANGED OutsideOfBridge

NextBridge ==
    \/ \E m \in Methods, c \in Callables, i \in BOOLEAN, f \in Faults :
            BridgeCall(m, c, i, f)
    \/ BridgeSerialize
    \/ BridgeSpawn
    \/ \E failure \in BridgeErrors \cup {NoFailure} : ChildRun(failure)
    \/ BridgeDecode

(***************************************************************************)
(*                       SEARCH-PATH COMPOSITION                           *)
(***************************************************************************)

\* Most entries of an inheritance list.
MaxInherit == 2

\* The environments of test_extra_inheritance_paths and what each has
\* installed.
Envs == {"first_env", "second_env", "third_env", "fourth_env"}
Modules == {"pyjokes", "emoji"}

Installed ==
    [first_env |-> [pyjokes |-> "0.5.0", emoji |-> "none"],
     second_env |-> [pyjokes |-> "none", emoji |-> "0.5.4"],
     third_env |-> [pyjokes |-> "0.6.0", emoji |-> "2.0.0"],
     fourth_env |-> [pyjokes |-> "0.4.1", emoji |-> "2.1.0"]]

InheritanceLists == UNION {[1..n -> Envs] : n \in 0..MaxInherit}

\* os.pathsep
PathSep == ":"

\* sysconfig.get_path("purelib", vars={"base": search_path}), as the
\* tokens of the resulting path.
Purelib(search_path) == <<search_path, "/lib/python/site-packages">>

\* separator.join(parts), on sequences of tokens.
RECURSIVE Join(_, _)
Join(separator, parts) ==
    IF parts = <<>> THEN <<>>
    ELSE IF Len(parts) = 1 THEN parts[1]
    ELSE parts[1] \o <<separator>> \o Join(separator, Tail(parts))

\* A composition that puts the first search path (the primary) last.
PythonPathPrimaryLast(search_paths) ==
    Join(PathSep, [i \in 1..Len(search_paths) |->
                    Purelib((Tail(search_paths) \o <<Head(search_paths)>>)[i])])

python_path_for(search_paths) ==
    Join(PathSep, [i \in 1..Len(search_paths) |-> Purelib(search_paths[i])])

\* How the child interpreter reads PYTHONPATH: split at os.pathsep.
RECURSIVE Split(_, _)
Split(text, separator) ==
    IF \A i \in 1..Len(text) : text[i] # separator THEN <<text>>
    ELSE LET i == CHOOSE i \in 1..Len(text) :
                    text[i] = separator /\ \A k \in 1..(i - 1) : text[k] # separator
         IN <<SubSeq(text, 1, i - 1)>> \o Split(SubSeq(text, i + 1, Len(text)), separator)

\* import m with the given search path: the first entry that has m wins.
RECURSIVE ImportFrom(_, _)
ImportFrom(entries, m) ==
    IF entries = <<>> THEN "ImportError"
    ELSE IF Installed[Head(entries)[1]][m] # "none" THEN Installed[Head(entries)[1]][m]
    ELSE ImportFrom(Tail(entries), m)

PathInit ==
    /\ ppc = "closed"
    /\ primary = "none"
    /\ inheritance = <<>>
    /\ pythonpath = <<>>
    /\ resolved = [m \in Modules |-> "unset"]

\* A connection is opened on a primary environment with an inheritance
\* list: the child is given python_path_for(primary, *inheritance).
OpenConnection(p, inherited) ==
    /\ ppc = "closed"
    /\ primary' = p
    /\ inheritance' = inherited
    /\ pythonpath' = python_path_for(<<p>> \o inherited)
    /\ resolved' = [m \in Modules |-> "unset"]
    /\ ppc' = "open"
    /\ UNCHANGED OutsideOfPath

\* The child imports module m and reports its version.
Import(m) ==
    /\ ppc = "open"
    /\ resolved' = [resolved EXCEPT ![m] = ImportFrom(Split(pythonpath, PathSep), m)]
    /\ UNCHANGED <<ppc, primary, inheritance, pythonpath>>
    /\ UNCHANGED OutsideOfPath

CloseConnection ==
    /\ ppc = "open"
    /\ ppc' = "closed"
    /\ UNCHANGED <<primary, inheritance, pythonpath, resolved>>
    /\ UNCHANGED OutsideOfPath

NextPath ==
    \/ \E p \in Envs, inherited \in InheritanceLists : OpenConnection(p, inherited)
    \/ \E m \in Modules : Import(m)
    \/ CloseConnection

(***************************************************************************)
(*                        THE SERVICE ADDRESS CODEC                        *)
(***************************************************************************)

\* Most characters (or bytes) of an address.
MaxAddressLen == 3

\* The sequences over S of at most n elements.
SeqsUpTo(S, n) == UNION {[1..k -> S] : k \in 0..n}

\* A str is a sequence of code points, a bytes object a sequence of bytes.
Text(units) == [type |-> "str", units |-> units]
Bytes(units) == [type |-> "bytes", units |-> units]

\* The characters of the addresses: 'a', U+00E9, U+20AC and the lone
\* surrogate U+DCFF; the bytes: 'a', the two bytes of U+00E9, and 0xFF.
CodePoints == {97, 233, 8364, 56575}
ByteValues == {97, 195, 169, 255}

Addresses ==
    {Text(u) : u \in SeqsUpTo(CodePoints, MaxAddressLen)}
        \cup {Bytes(u) : u \in SeqsUpTo(ByteValues, MaxAddressLen)}

IsSurrogate(cp) == cp >= 55296 /\ cp <= 57343

\* The UTF-8 bytes of one code point of the basic plane.
Utf8Of(cp) ==
    IF cp < 128 THEN <<cp>>
    ELSE IF cp < 2048 THEN <<192 + (cp \div 64), 128 + (cp % 64)>>
    ELSE <<224 + (cp \div 4096), 128 + ((cp \div 64) % 64), 128 + (cp % 64)>>

RECURSIVE Utf8OfAll(_)
Utf8OfAll(cps) ==
    IF cps = <<>> THEN <<>> ELSE Utf8Of(Head(cps)) \o Utf8OfAll(Tail(cps))

\* str.encode(): the UTF-8 bytes, or UnicodeEncodeError on a surrogate.
str_encode(text) ==
    IF \E i \in 1..Len(text.units) : IsSurrogate(text.units[i])
    THEN Raise(Exc("UnicodeEncodeError", "surrogates not allowed"))
    ELSE Return(Bytes(Utf8OfAll(text.units)))

IsContinuation(b) == b >= 128 /\ b <= 191

\* The number of bytes of the UTF-8 sequence at the head of b, 0 when the
\* head of b is no well-formed sequence (of one, two or three bytes).
Utf8Len(b) ==
    IF b[1] < 128 THEN 1
    ELSE IF b[1] >= 194 /\ b[1] <= 223
         THEN IF Len(b) >= 2 /\ IsContinuation(b[2]) THEN 2 ELSE 0
    ELSE IF b[1] >= 224 /\ b[1] <= 239
         THEN IF /\ Len(b) >= 3
                 /\ IsContinuation(b[2])
                 /\ IsContinuation(b[3])
                 /\ LET cp == (b[1] - 224) * 4096 + (b[2] - 128) * 64 + (b[3] - 128)
                    IN cp >= 2048 /\ ~IsSurrogate(cp)
              THEN 3 ELSE 0
    ELSE 0

\* The code point of the well-formed sequence of n bytes at the head of b.
Utf8CodePoint(b, n) ==
    IF n = 1 THEN b[1]
    ELSE IF n = 2 THEN (b[1] - 192) * 64 + (b[2] - 128)
    ELSE (b[1] - 224) * 4096 + (b[2] - 128) * 64 + (b[3] - 128)

RECURSIVE Utf8WellFormed(_)
Utf8WellFormed(b) ==
    \/ b = <<>>
    \/ /\ Utf8Len(b) > 0
       /\ Utf8WellFormed(SubSeq(b, Utf8Len(b) + 1, Len(b)))

RECURSIVE Utf8CodePoints(_)
Utf8CodePoints(b) ==
    IF b = <<>> THEN <<>>
    ELSE <<Utf8CodePoint(b, Utf8Len(b))>>
         \o Utf8CodePoints(SubSeq(b, Utf8Len(b) + 1, Len(b)))

\* bytes.decode("utf-8"): the text, or UnicodeDecodeError.
bytes_decode(bytes) ==
    IF Utf8WellFormed(bytes.units)
    THEN Return(Text(Utf8CodePoints(bytes.units)))
    ELSE Raise(Exc("UnicodeDecodeError", "invalid start byte"))

\* The base64 alphabet: A-Z, a-z, 0-9, '+', '/', as ASCII codes, and back.
B64Char(i) ==
    IF i < 26 THEN 65 + i
    ELSE IF i < 52 THEN 97 + (i - 26)
    ELSE IF i < 62 THEN 48 + (i - 52)
    ELSE IF i = 62 THEN 43 ELSE 47

B64Index(c) ==
    IF c >= 65 /\ c <= 90 THEN c - 65
    ELSE IF c >= 97 /\ c <= 122 THEN c - 97 + 26
    ELSE IF c >= 48 /\ c <= 57 THEN c - 48 + 52
    ELSE IF c = 43 THEN 62 ELSE 63

\* base64.b64encode: three bytes become four characters, the last group is
\* padded with '='.
RECURSIVE b64encode(_)
b64encode(b) ==
    IF b = <<>> THEN <<>>
    ELSE LET n == Len(b)
             w == b[1] * 65536 + (IF n >= 2 THEN b[2] * 256 ELSE 0)
                               + (IF n >= 3 THEN b[3] ELSE 0)
         IN <<B64Char(w \div 262144),
              B64Char((w \div 4096) % 64),
              IF n >= 2 THEN B64Char((w \div 64) % 64) ELSE 61,
              IF n >= 3 THEN B64Char(w % 64) ELSE 61>>
            \o b64encode(SubSeq(b, 4, n))

\* base64.b64decode of well-formed base64: four characters become three
\* bytes, fewer for a padded group.
RECURSIVE b64decode(_)
b64decode(c) ==
    IF Len(c) < 4 THEN <<>>
    ELSE LET pad == Cardinality({i \in 3..4 : c[i] = 61})
             w == B64Index(c[1]) * 262144 + B64Index(c[2]) * 4096
                    + (IF c[3] = 61 THEN 0 ELSE B64Index(c[3]) * 64)
                    + (IF c[4] = 61 THEN 0 ELSE B64Index(c[4]))
         IN SubSeq(<<w \div 65536, (w \div 256) % 256, w % 256>>, 1, 3 - pad)
            \o b64decode(SubSeq(c, 5, Len(c)))

\* encode_service_address(address).
encode_service_address(address) ==
    LET text == IF address.type = "bytes" THEN bytes_decode(address)
                ELSE Return(address)
    IN IF text.kind = "raise" THEN text
       ELSE LET raw == str_encode(text.value)
            IN IF raw.kind = "raise" THEN raw
               ELSE bytes_decode(Bytes(b64encode(raw.value.units)))

\* decode_service_address(address), for the text encode_service_address
\* returns (ASCII, well-formed base64).
decode_service_address(address) ==
    bytes_decode(Bytes(b64decode(address.units)))

NotCalled == [kind |-> "none"]

AddressInit ==
    /\ service_address = Text(<<>>)
    /\ encoded_address = NotCalled
    /\ decoded_address = NotCalled

\* The parent encodes the address of its listener ...
EncodeAddress(a) ==
    /\ service_address' = a
    /\ encoded_address' = encode_service_address(a)
    /\ decoded_address' = NotCalled
    /\ UNCHANGED OutsideOfAddress

\* ... and the child decodes the text it was given.
DecodeAddress ==
    /\ encoded_address.kind = "return"
    /\ decoded_address = NotCalled
    /\ decoded_address' = decode_service_address(encoded_address.value)
    /\ UNCHANGED <<service_address, encoded_address>>
    /\ UNCHANGED OutsideOfAddress

NextAddress ==
    \/ \E a \in Addresses : EncodeAddress(a)
    \/ DecodeAddress

(***************************************************************************)
(*                         THE KEY OF AN ENVIRONMENT                       *)
(***************************************************************************)

\* A configuration is a dict: its items in insertion order, as <<key, value>>
\* pairs with distinct keys; the values are lists of package names.
ConfigKeys == {"packages", "channels"}
ConfigValues == {<<"a">>, <<"b", "a">>}

Configs ==
    {c \in SeqsUpTo(ConfigKeys \X ConfigValues, Cardinality(ConfigKeys)) :
        \A i, j \in 1..Len(c) : c[i][1] = c[j][1] => i = j}

\* The dict as a mapping: two dicts are equal when they hold the same items,
\* in whatever order.
AsMapping(config) == {config[i] : i \in 1..Len(config)}

\* The ambient state of the process computing a key: its working directory.
Ambients == {"/", "/tmp"}

\* str.join: the items with the separator between them.
RECURSIVE StrJoin(_, _)
StrJoin(sep, items) ==
    IF items = <<>> THEN <<>>
    ELSE IF Len(items) = 1 THEN <<items[1]>>
    ELSE <<items[1], sep>> \o StrJoin(sep, Tail(items))

\* json.dumps of a list of strings.
JsonList(items) == <<"[">> \o StrJoin(", ", items) \o <<"]">>

RECURSIVE JsonItems(_)
JsonItems(config) ==
    IF config = <<>> THEN <<>>
    ELSE <<<<config[1][1], ": ">> \o JsonList(config[1][2])>>
         \o JsonItems(Tail(config))

RECURSIVE Concat(_)
Concat(parts) == IF parts = <<>> THEN <<>> ELSE Head(parts) \o Concat(Tail(parts))

\* The items as json.dumps orders them: as the dict iterates, that is in
\* insertion order (no sort_keys).
DumpOrder(config) == config

\* json.dumps(config).
json_dumps(config) ==
    <<"{">> \o Concat([i \in 1..Len(JsonItems(DumpOrder(config))) |->
                          IF i = 1 THEN JsonItems(DumpOrder(config))[i]
                          ELSE <<", ">> \o JsonItems(DumpOrder(config))[i]])
           \o <<"}">>

\* hashlib.sha256(text).hexdigest(): texts that differ have digests that
\* differ (collisions left aside).
sha256(text) == [sha256 |-> text]

\* sha256_digest_of(*fields): the digest of the fields joined.
sha256_digest_of(fields) == sha256(StrJoin("\n", fields))

\* IsolateServer.key.
IsolateServerKey(host, kind, config) ==
    sha256_digest_of(<<<<host>>, <<kind>>, json_dumps(config)>>)

\* dict.get(key, default).
RECURSIVE DictGet(_, _, _)
DictGet(config, key, default) ==
    IF config = <<>> THEN default
    ELSE IF config[1][1] = key THEN config[1][2]
    ELSE DictGet(Tail(config), key, default)

\* CondaEnvironment.from_config(config).key.
CondaEnvironmentKey(config) ==
    sha256(StrJoin(" ", DictGet(config, "packages", <<>>)))

Hosts == {"localhost:50051"}
Kinds == {"conda"}

KeyInit ==
    /\ ambient = "/"
    /\ key_calls = [i \in 1..2 |-> NotCalled]

\* The process moves to another working directory.
ChangeAmbient(a) ==
    /\ a # ambient
    /\ ambient' = a
    /\ UNCHANGED key_calls
    /\ UNCHANGED OutsideOfKey

\* The key of a description is computed (the i-th computation compared).
ComputeKey(i, host, kind, config) ==
    /\ key_calls' = [key_calls EXCEPT ![i] =
                        [kind |-> "called",
                         host |-> host,
                         target_environment_kind |-> kind,
                         target_environment_config |-> config,
                         ambient |-> ambient,
                         server_key |-> IsolateServerKey(host, kind, config),
                         conda_key |-> CondaEnvironmentKey(config)]]
    /\ UNCHANGED ambient
    /\ UNCHANGED OutsideOfKey

NextKey ==
    \/ \E a \in Ambients : ChangeAmbient(a)
    \/ \E i \in 1..2, h \in Hosts, k \in Kinds, c \in Configs :
          ComputeKey(i, h, k, c)

(***************************************************************************)
(*                     LOADING A SERIALIZED OBJECT                         *)
(***************************************************************************)

\* The objects a payload may hold: the callables of the tests, an exception
\* of the user, and a SerializationError raised on the other side.
LoadableObjects ==
    {Callable(c) : c \in Callables}
        \cup {Exc("ZeroDivisionError", "division by zero"),
              Exc("SerializationError", "Error while serializing the given object")}

\* The payloads given to load_serialized_object: the bytes of an object, or
\* bytes no codec can decode.
RawObjects == {[bytes |-> o] : o \in LoadableObjects} \cup {[garbage |-> TRUE]}

LoadInit ==
    /\ lpc = "idle"
    /\ load_request = NotCalled
    /\ load_outcome = NotCalled

\* load_serialized_object(method, raw, was_it_raised=flag) is called.
LoadCall(method, raw, flag, fault) ==
    /\ lpc \in {"idle", "done"}
    /\ lpc' = "loading"
    /\ load_request' = [kind |-> "called", method |-> method, raw |-> raw,
                        was_it_raised |-> flag, fault |-> fault]
    /\ load_outcome' = NotCalled
    /\ UNCHANGED OutsideOfLoad

\* The call ends: it returns or raises.
LoadEnd ==
    /\ lpc = "loading"
    /\ lpc' = "done"
    /\ load_outcome' = load_serialized_object(load_request.method,
                                              load_request.raw,
                                              load_request.was_it_raised,
                                              load_request.fault)
    /\ UNCHANGED load_request
    /\ UNCHANGED OutsideOfLoad

NextLoad ==
    \/ \E method \in Methods, raw \in RawObjects, flag \in BOOLEAN,
          fault \in Faults : LoadCall(method, raw, flag, fault)
    \/ LoadEnd

(***************************************************************************)
(*                           SPECIFICATIONS                                *)
(***************************************************************************)

Init ==
    /\ LogInit /\ CreateInit /\ RemoteInit /\ BridgeInit /\ PathInit
    /\ AddressInit /\ KeyInit /\ LoadInit

\* The components share no state: the specification of another component
\* than environment creation starts from one of the initial states of
\* environment creation, which it never leaves.
InitElsewhere == Init /\ conda_available /\ packages = <<>>

SpecLogPipe == InitElsewhere /\ [][NextLog]_vars
SpecCreate == Init /\ [][NextCreate]_vars
SpecRemote == InitElsewhere /\ [][NextRemote]_vars
SpecBridge == InitElsewhere /\ [][NextBridge]_vars
SpecSearchPath == InitElsewhere /\ [][NextPath]_vars
SpecAddress == InitElsewhere /\ [][NextAddress]_vars
SpecKey == InitElsewhere /\ [][NextKey]_vars
SpecLoad == InitElsewhere /\ [][NextLoad]_vars

(***************************************************************************)
(*                      PROPERTIES OF THE LOG PIPE                         *)
(***************************************************************************)

\* C1: when the exit of logged_io has returned, every line the child wrote
\* to either pipe during the body has been passed to the hook of its stream.
C1_AllLinesPassedAtExit ==
    ctl = "exited" => \A s \in Streams : pipe[s] = <<>> /\ rbuf[s] = <<>>

\* p is an initial part of q.
IsPrefix(p, q) == Len(p) <= Len(q) /\ p = SubSeq(q, 1, Len(p))

\* C11: at every moment the records the hook of a stream has received are
\* the first lines the child wrote to that stream, in the order written, each
\* one once and none left out.
C11_PassedIsPrefixOfWritten ==
    \A s \in Streams : IsPrefix(passed[s], StripAll(written[s]))

\* C16: once logged_io has been left and both readers have ended, the
\* termination event is set and no descriptor of the two pipes is open.
C16_PipesReleased ==
    (ctl = "exited" /\ \A s \in Streams : rpc[s] = "done")
        => termination_event /\ open_fds = {}

\* C17: logged_io is not left without an error while a reader thread is
\* still running.
C17_NoSilentExitWithRunningReader ==
    ctl = "exited" => \A s \in Streams : rpc[s] = "done"

\* A whole line is among the characters.
HasLine(data) == \E i \in 1..Len(data) : data[i] = "\n"

\* C18: when a turn of the polling loop of a reader has read, no whole line
\* that was in the pipe at that wake is left unread.
C18_WakeDrainsWholeLines ==
    [][\A s \in Streams :
          (rpc[s] = "wait" /\ rpc'[s] = "hook_poll") => ~HasLine(pipe'[s])]_vars

(***************************************************************************)
(*                  PROPERTIES OF ENVIRONMENT CREATION                     *)
(***************************************************************************)

\* C2: a create that finds the slot on disk returns the path when
\* exist_ok is set and raises FileExistsError when it is not; either way it
\* starts no provisioner and leaves the slot as it was.
C2_ExistingSlot ==
    [][\A c \in Callers :
        (cpc[c] = "check" /\ cpc'[c] # "check" /\ PathExists) =>
            /\ disk' = disk
            /\ provisioning' = provisioning
            /\ ~invoked'[c]
            /\ IF exist_ok[c]
               THEN cpc'[c] = "returned" /\ cerr'[c] = "none"
               ELSE cpc'[c] = "failed" /\ cerr'[c] = "FileExistsError"]_vars

\* Both cases of C2 have happened: one call returned the existing slot
\* without provisioning, another was refused with FileExistsError.
C2_Witness ==
    \E c, d \in Callers :
        /\ cpc[c] = "returned" /\ exist_ok[c] /\ ~invoked[c]
        /\ cpc[d] = "failed" /\ cerr[d] = "FileExistsError"
        /\ PathExists

\* C3: whenever a create fails during provisioning (no conda binary, a
\* non-zero exit, an interruption), the slot is absent when the call ends.
C3_FailedCreateLeavesNoSlot ==
    [][\A c \in Callers :
        (cpc[c] \in {"enter", "conda"} /\ cpc'[c] = "failed") =>
            disk' = "absent"]_vars

\* C4: a create(exist_ok=True) returns only a slot whose provisioning has
\* completed: no run is in progress on it and none left it unfinished.
C4_ReturnedSlotIsComplete ==
    [][\A c \in Callers :
        (cpc[c] \in {"check", "conda"} /\ cpc'[c] = "returned" /\ exist_ok[c]) =>
            (disk' = "complete" /\ provisioning' = {})]_vars

\* C5: the provisioner of a key is run by at most one caller at a time.
C5_OneProvisionerAtATime == Cardinality(provisioning) <= 1

\* C12: a destroy that follows a destroy of the same handle, the directory
\* being gone already, returns normally: it does not fail.
C12_DestroyIdempotent ==
    [][\A c \in Callers :
        cpc[c] = "destroyed" => cpc'[c] # "destroy_failed"]_vars

\* C15: whenever create returns after having run the provisioner, the slot
\* holds the ready marker and the runtime binary (a provisioner that exits
\* with status zero without leaving the binary does not make create return).
C15_ReturnedSlotIsReady ==
    [][\A c \in Callers :
        (cpc[c] = "conda" /\ cpc'[c] = "returned") =>
            {ReadyMarker, PythonBin} \subseteq slot_files']_vars

\* C21: a slot whose path a create has returned is on disk as long as no
\* destroy has removed it: no failing create of another caller removes it.
C21_ReturnedSlotStays == handed_out => PathExists

(***************************************************************************)
(*                    PROPERTIES OF THE REMOTE FACADE                      *)
(***************************************************************************)

\* The results of the terminal frames (is_complete = TRUE) among frames.
RECURSIVE TerminalResults(_)
TerminalResults(frames) ==
    IF frames = <<>> THEN <<>>
    ELSE (IF Head(frames).is_complete THEN <<Head(frames).result>> ELSE <<>>)
            \o TerminalResults(Tail(frames))

RunFinished == routcome.kind \in {"return", "raise"}

\* How run ends on a stream with the given terminal results, the two
\* failures being reported as fault(no) and fault(multiple).
ExactlyOneTerminal(results, no, multiple) ==
    /\ routcome.kind = "return" <=> Len(results) = 1
    /\ Len(results) = 1 => routcome.value = <<"decoded", results[1]>>
    /\ Len(results) = 0 => routcome = no
    /\ Len(results) > 1 => routcome = multiple

ProtocolFault(message) ==
    [kind |-> "raise", type |-> "ProtocolFault", message |-> message]

RuntimeError(message) ==
    [kind |-> "raise", type |-> "RuntimeError", message |-> message]

\* C6 as stated: run returns iff the stream holds exactly one terminal
\* frame, and then that frame's decoded result; no terminal frame is reported
\* as ProtocolFault("no terminal frame received"), several as
\* ProtocolFault("multiple terminal frames received").
C6_AsStated ==
    RunFinished =>
        ExactlyOneTerminal(TerminalResults(stream),
                           ProtocolFault("no terminal frame received"),
                           ProtocolFault("multiple terminal frames received"))

\* C6 amended: run returns iff the stream holds exactly one terminal frame,
\* and then that frame's decoded result; no terminal frame raises
\* RuntimeError("No result object was received ..."), several raise
\* RuntimeError("Multiple result objects were received ...").
C6_ExactlyOneTerminalFrame ==
    RunFinished =>
        ExactlyOneTerminal(TerminalResults(stream),
                           RuntimeError(NoResultMessage),
                           RuntimeError(MultipleResultsMessage))

\* run returned the result of the one terminal frame of a stream of several
\* frames.
C6_Witness ==
    /\ routcome.kind = "return"
    /\ Len(stream) >= 2
    /\ ~stream[Len(stream)].is_complete

\* The log entries of the frames, as the sink should see them: frame by
\* frame, in the order inside each frame.
RECURSIVE LogsInOrder(_)
LogsInOrder(frames) ==
    IF frames = <<>> THEN <<>>
    ELSE [j \in 1..Len(Head(frames).logs) |->
            <<Head(frames).logs[j].message, Head(frames).logs[j].level,
              Head(frames).logs[j].source>>]
         \o LogsInOrder(Tail(frames))

\* C7: at every moment of run the sink has received exactly the log entries
\* of the frames that have arrived, once each and in stream order; run ends
\* only after the whole stream was handled, and what it returns is the
\* decoded payload of the terminal frame.
C7_LogsForwardedInOrder ==
    /\ sink = LogsInOrder(SubSeq(stream, 1, pos))
    /\ RunFinished => (stream_closed /\ pos = Len(stream))
    /\ routcome.kind = "return" =>
        \E i \in 1..Len(stream) :
            /\ stream[i].is_complete
            /\ routcome.value = <<"decoded", stream[i].result>>

\* run returned after forwarding the logs of several frames, one of which
\* carried more than one entry.
C7_Witness ==
    /\ routcome.kind = "return"
    /\ Len(sink) >= 3
    /\ \E i \in 1..Len(stream) : Len(stream[i].logs) >= 2
    /\ \E i, k \in 1..Len(stream) : i # k /\ stream[i].logs # <<>> /\ stream[k].logs # <<>>

\* C19: a connection holds no channel before its first run; a run opens a
\* channel only when none is held and otherwise goes on with the one held,
\* whatever the run before did; the only open channel is the one held; and
\* once __exit__ has cleared the channel none the connection opened is open.
C19_ChannelLifecycle ==
    /\ [](/\ channels_opened = 0 => channel = NoChannel
          /\ open_channels = IF channel = NoChannel THEN {} ELSE {channel})
    /\ [][LET RunStep == routcome.kind # "running" /\ routcome'.kind = "running"
              Opened == channels_opened' # channels_opened
              Cleared == channel # NoChannel /\ channel' = NoChannel
          IN /\ Opened => (RunStep /\ channel = NoChannel /\ channel' # NoChannel)
             /\ (RunStep /\ channel # NoChannel) =>
                    (channel' = channel /\ open_channels' = open_channels)
             /\ Cleared => open_channels' = {}]_vars

\* A run that follows a run that raised goes on with the channel that run
\* left, the first and only one the connection has opened.
C19_Witness ==
    /\ routcome.kind = "running"
    /\ previous_raised
    /\ channels_opened = 1
    /\ open_channels = {channel}

(***************************************************************************)
(*           PROPERTIES OF SERIALIZATION AND OF THE BRIDGE                 *)
(***************************************************************************)

\* C8: when the child reports an exception of the callable, the call raises
\* that same exception without ignore_exceptions and returns it wrapped in a
\* UserException with it; an error of the bridge itself is raised whatever
\* the flag says.
C8_ExceptionPropagation ==
    (bpc = "done" /\ spawned /\ child_result.tag = "Err") =>
        IF child_result.is_user_exception /\ breq.ignore_exceptions
        THEN boutcome = Return(UserException(Execute(breq.callable).exc))
        ELSE IF child_result.is_user_exception
        THEN boutcome = Raise(Execute(breq.callable).exc)
        ELSE boutcome = Raise(child_result.object)

\* The callable raised in the child and the call has ended: once with
\* ignore_exceptions, where it returned the wrapped exception.
C8_Witness ==
    /\ bpc = "done"
    /\ child_result.tag = "Err"
    /\ child_result.is_user_exception
    /\ breq.ignore_exceptions
    /\ boutcome.kind = "return"

\* The codec of the call can be prepared: the module imports and has
\* loads and dumps.
CodecUsable(method) == method \in {"pickle", "cloudpickle"}

\* The codec of the call can encode the callable, undisturbed.
Encodable(req) ==
    req.fault = "none" /\ ~(req.method = "pickle" /\ req.callable = "lambda")

\* C9: serialize_object returns the encoded bytes or raises a
\* SerializationError, nothing else: one naming the preparing step when the
\* codec cannot be imported or validated, one naming the serializing step
\* when dumps fails; and a call whose serialization failed has ended with
\* that error and spawned no child.
C9_SerializeOrSerializationError ==
    serialized.kind # "none" =>
        /\ serialized.kind = "return" <=> (CodecUsable(breq.method) /\ Encodable(breq))
        /\ serialized.kind = "return" => serialized.value = [bytes |-> Callable(breq.callable)]
        /\ ~CodecUsable(breq.method) =>
            serialized = Raise(Exc("SerializationError",
                "Error while preparing the serialization backend ("
                    \o breq.method \o ")"))
        /\ (CodecUsable(breq.method) /\ ~Encodable(breq)) =>
            serialized = Raise(Exc("SerializationError",
                "Error while serializing the given object"))
        /\ serialized.kind = "raise" =>
            (bpc = "done" /\ boutcome = serialized /\ ~spawned)

\* Serialization was interrupted inside a usable codec and the call ended
\* with a SerializationError.
C9_Witness ==
    /\ bpc = "done"
    /\ serialized.kind = "raise"
    /\ CodecUsable(breq.method)
    /\ breq.fault = "KeyboardInterrupt"

(***************************************************************************)
(*                PROPERTIES OF SEARCH-PATH COMPOSITION                    *)
(***************************************************************************)

\* The version of m the precedence rule promises: the primary's if it has
\* m, else that of the earliest inheritance entry that has it.
RECURSIVE FirstWith(_, _)
FirstWith(envs, m) ==
    IF envs = <<>> THEN "ImportError"
    ELSE IF Installed[Head(envs)][m] # "none" THEN Installed[Head(envs)][m]
    ELSE FirstWith(Tail(envs), m)

Promised(m) ==
    IF Installed[primary][m] # "none" THEN Installed[primary][m]
    ELSE FirstWith(inheritance, m)

\* C10: the search path of a connection has one entry per environment,
\* the library directory of the primary first and then those of the
\* inheritance list in its order, duplicates kept; a module imported in the
\* child comes from the primary if it has it, else from the earliest
\* inheritance entry that has it.
C10_SearchPathOrder ==
    ppc = "open" =>
        LET entries == Split(pythonpath, PathSep) IN
        /\ Len(entries) = Len(inheritance) + 1
        /\ entries[1] = <<primary, "/lib/python/site-packages">>
        /\ \A i \in 1..Len(inheritance) :
                entries[i + 1] = <<inheritance[i], "/lib/python/site-packages">>
        /\ \A m \in Modules : resolved[m] # "unset" => resolved[m] = Promised(m)

\* A module the primary lacks was imported from the second entry of an
\* inheritance list whose first entry lacks it too.
C10_Witness ==
    /\ ppc = "open"
    /\ Len(inheritance) = 2
    /\ \E m \in Modules :
        /\ Installed[primary][m] = "none"
        /\ Installed[inheritance[1]][m] = "none"
        /\ resolved[m] = Installed[inheritance[2]][m]
        /\ resolved[m] \notin {"unset", "none"}

(***************************************************************************)
(*                 PROPERTIES OF THE SERVICE ADDRESS CODEC                 *)
(***************************************************************************)

\* C13: encoding an address, text or bytes, never fails, and decoding what
\* it gave returns the address that was encoded.
C13_AddressRoundTrip ==
    /\ encoded_address.kind # "raise"
    /\ decoded_address # NotCalled => decoded_address = Return(service_address)

(***************************************************************************)
(*                  PROPERTIES OF THE KEY OF AN ENVIRONMENT                *)
(***************************************************************************)

Called(i) == key_calls[i].kind = "called"

\* Two descriptions with the same host, the same kind and configurations
\* equal as mappings.
SameDescription(d, e) ==
    /\ d.host = e.host
    /\ d.target_environment_kind = e.target_environment_kind
    /\ AsMapping(d.target_environment_config)
         = AsMapping(e.target_environment_config)

\* C14: two descriptions that are equal as mappings have the same key,
\* whatever the order their configuration keys are listed in and whatever
\* the ambient state each key was computed in.
C14_KeyOfCanonicalForm ==
    \A i, j \in 1..2 :
        (Called(i) /\ Called(j) /\ SameDescription(key_calls[i], key_calls[j]))
            => /\ key_calls[i].server_key = key_calls[j].server_key
               /\ key_calls[i].conda_key = key_calls[j].conda_key

(***************************************************************************)
(*                PROPERTIES OF LOADING A SERIALIZED OBJECT                *)
(***************************************************************************)

\* The call cannot decode its payload: the method is no usable codec, the
\* bytes are not those of an object, or the decoding is interrupted.
LoadFails(q) ==
    \/ ~CodecUsable(q.method)
    \/ DOMAIN q.raw # {"bytes"}
    \/ q.fault # "none"

LoadErrors ==
    {Raise(Exc("SerializationError", "Error while " \o PreparingMessage(method))) :
        method \in Methods}
        \cup {Raise(Exc("SerializationError",
                        "Error while deserializing the given object"))}

=============================================================================
